---------------------------- MODULE Spec2Model ----------------------------
(***************************************************************************)
(* The JSONTP reference file server (file-server/src/main.rs): one TCP     *)
(* listener, one thread per accepted connection; each thread reads once,   *)
(* decodes a request envelope, validates it, reads the named file, builds  *)
(* one response envelope and writes it once.                               *)
(*                                                                         *)
(* Strings whose characters the code inspects (`jsontp`, header keys) are  *)
(* sequences of characters; strings the code only compares or tests for    *)
(* emptiness are TLA+ strings.  A JSON value (serde_json::Value) is a      *)
(* record [t |-> tag, v |-> lexeme].                                       *)
(***************************************************************************)
EXTENDS Integers, Sequences, FiniteSets, TLC

(***************************************************************************)
(* Bounds of the model.                                                    *)
(***************************************************************************)
\* A sampled request differs from the well-formed base request in at most
\* this many places (a field replaced, or one header entry added).
MaxDeviations == 2
\* Connections of the concurrent server specification.
MaxConn == 2

(***************************************************************************)
(* Program constants.                                                      *)
(***************************************************************************)
\* let mut buffer = [0; 2048];
BufSize == 2048

(***************************************************************************)
(* Option / Result values.                                                 *)
(***************************************************************************)
None == [some |-> FALSE]
Some(v) == [some |-> TRUE, val |-> v]

Ok(v) == [ok |-> TRUE, val |-> v]
Err(e) == [ok |-> FALSE, err |-> e]

Min(a, b) == IF a < b THEN a ELSE b

(***************************************************************************)
(* Characters and strings.                                                 *)
(***************************************************************************)
\* Number of bytes of a character in UTF-8.  "U+00E9" (e acute) and
\* "U+FFFD" (the replacement character) are the multi-byte samples.
Utf8Len(ch) == IF ch = "U+00E9" THEN 2 ELSE IF ch = "U+FFFD" THEN 3 ELSE 1

RECURSIVE StrBytes(_)
StrBytes(s) == IF s = <<>> THEN 0 ELSE Utf8Len(Head(s)) + StrBytes(Tail(s))

\* str::get(..n): the prefix of n bytes, or None when the string is shorter
\* or byte n is not a character boundary.
str_get_to(s, n) ==
    IF \E k \in 0..Len(s) : StrBytes(SubSeq(s, 1, k)) = n
    THEN Some(SubSeq(s, 1, CHOOSE k \in 0..Len(s) : StrBytes(SubSeq(s, 1, k)) = n))
    ELSE None

UpperToLower ==
    [A |-> "a", B |-> "b", C |-> "c", D |-> "d", E |-> "e", F |-> "f", G |-> "g",
     H |-> "h", I |-> "i", J |-> "j", K |-> "k", L |-> "l", M |-> "m", N |-> "n",
     O |-> "o", P |-> "p", Q |-> "q", R |-> "r", S |-> "s", T |-> "t", U |-> "u",
     V |-> "v", W |-> "w", X |-> "x", Y |-> "y", Z |-> "z"]

\* str::to_lowercase
to_lowercase(s) ==
    [i \in DOMAIN s |-> IF s[i] \in DOMAIN UpperToLower THEN UpperToLower[s[i]] ELSE s[i]]

\* String::from_utf8_lossy on a string of the message: a byte that is not
\* valid UTF-8 ("\\xFF") becomes the replacement character U+FFFD.
from_utf8_lossy(s) == IF s = "\\xFF" THEN "\\uFFFD" ELSE s

from_utf8_lossy_chars(s) ==
    [i \in DOMAIN s |-> IF s[i] = "\\xFF" THEN "U+FFFD" ELSE s[i]]

(***************************************************************************)
(* JSON values (serde_json::Value) and maps (HashMap<String, Value>).      *)
(***************************************************************************)
JBool(b) == [t |-> "bool", v |-> IF b THEN "true" ELSE "false"]
JString(s) == [t |-> "string", v |-> s]
JNumber(lexeme) == [t |-> "number", v |-> lexeme]

\* HashMap::new()
EmptyMap == [k \in {} |-> JBool(FALSE)]

\* The map m with the entry k -> v inserted (HashMap::insert).
Insert(m, k, v) == [x \in DOMAIN m \cup {k} |-> IF x = k THEN v ELSE m[x]]

(***************************************************************************)
(* String literals of the source, as character sequences.                  *)
(***************************************************************************)
V_1_0 == <<"1", ".", "0">>

H_content_type == <<"c","o","n","t","e","n","t","-","t","y","p","e">>
H_accept == <<"a","c","c","e","p","t">>
H_accept_encoding == <<"a","c","c","e","p","t","-","e","n","c","o","d","i","n","g">>
H_accept_language == <<"a","c","c","e","p","t","-","l","a","n","g","u","a","g","e">>
H_authorization == <<"a","u","t","h","o","r","i","z","a","t","i","o","n">>
H_cookies == <<"c","o","o","k","i","e","s">>
H_if_modified_since == <<"i","f","-","m","o","d","i","f","i","e","d","-","s","i","n","c","e">>
H_if_unmodified_since ==
    <<"i","f","-","u","n","m","o","d","i","f","i","e","d","-","s","i","n","c","e">>
H_expect == <<"e","x","p","e","c","t">>
H_ignore_invalid_headers ==
    <<"i","g","n","o","r","e","-","i","n","v","a","l","i","d","-","h","e","a","d","e","r","s">>
H_date == <<"d","a","t","e">>
H_language == <<"l","a","n","g","u","a","g","e">>

(***************************************************************************)
(* JsontpRequest::validate                                                 *)
(***************************************************************************)
\* Variant of version_mismatch: the version compared as a whole, not by
\* its first three bytes.
version_mismatch_exact(self) == self.jsontp # V_1_0

\* self.jsontp.get(..3) != Some("1.0")
version_mismatch(self) == str_get_to(self.jsontp, 3) # Some(V_1_0)

\* Variant of wrong_type: the type compared without regard to its first
\* letter's case.
wrong_type_any_case(self) == self.type_of_request \notin {"request", "Request"}

\* self.type_of_request != "request"
wrong_type(self) == self.type_of_request # "request"

\* Variant of known_encoding: the encoding matched without regard to case.
known_encoding_any_case(self) ==
    self.body.encoding \in {"gzip", "deflate", "br", "identity", "GZIP", "DEFLATE", "BR", "IDENTITY"}

\* match self.body.encoding.as_str() { "gzip" | "deflate" | "br" | "identity" => {} .. }
known_encoding(self) == self.body.encoding \in {"gzip", "deflate", "br", "identity"}

\* match self.method.as_str() { "GET" | "POST" | "PUT" | "DELETE" | "OPTIONS" => {} .. }
known_method(self) == self.method \in {"GET", "POST", "PUT", "DELETE", "OPTIONS"}

\* The arm of the match on key.to_lowercase() that leaves bad_headers unset.
allowed_header(key) ==
    to_lowercase(key) \in
        {H_content_type, H_accept, H_accept_encoding, H_accept_language,
         H_authorization, H_cookies, H_if_modified_since, H_if_unmodified_since,
         H_expect}

\* The value of bad_headers after the loop over self.headers: the loop sets it
\* and breaks at the first key outside the list, whatever the iteration order.
bad_headers(self) == \E key \in DOMAIN self.headers : ~allowed_header(key)

\* The loop `for (key, _) in &self.headers` run over the keys in the order
\* `keys` (a HashMap iterates in an arbitrary order): the value of
\* bad_headers when it ends.
RECURSIVE header_loop(_)
header_loop(keys) ==
    IF keys = <<>> THEN FALSE
    ELSE IF ~allowed_header(Head(keys)) THEN TRUE
    ELSE header_loop(Tail(keys))

\* Variant of override_missing: the presence of the key is enough, whatever
\* its value.
override_missing_key_only(self) == H_ignore_invalid_headers \notin DOMAIN self.headers

\* self.headers.get("ignore-invalid-headers").unwrap_or(&Value::Bool(false))
\*     != &Value::Bool(true)
override_missing(self) ==
    (IF H_ignore_invalid_headers \in DOMAIN self.headers
     THEN self.headers[H_ignore_invalid_headers]
     ELSE JBool(FALSE)) # JBool(TRUE)

\* The (String, u16) pair of validate's Err.
Failure(message, code) == [message |-> message, code |-> code]

\* Variant of validate: the header check runs right after the version check.
validate_headers_early(self) ==
    IF version_mismatch(self) THEN Err(Failure("HTTP Version Not Supported", 505))
    ELSE IF bad_headers(self) /\ override_missing(self)
         THEN Err(Failure("Bad Request hea", 400))
    ELSE IF wrong_type(self) THEN Err(Failure("Bad Request", 400))
    ELSE IF self.resource = "" THEN Err(Failure("Bad Request", 400))
    ELSE IF self.body.content = "" THEN Err(Failure("Bad Request", 400))
    ELSE IF self.body.encoding = "" THEN Err(Failure("Bad Request", 400))
    ELSE IF self.method = "" THEN Err(Failure("Bad Request", 400))
    ELSE IF ~known_encoding(self) THEN Err(Failure("Bad Request", 400))
    ELSE IF ~known_method(self) THEN Err(Failure("Bad Request", 400))
    ELSE Ok("unit")

\* fn validate(&self) -> Result<(), (String, u16)>
validate(self) ==
    IF version_mismatch(self) THEN Err(Failure("HTTP Version Not Supported", 505))
    ELSE IF wrong_type(self) THEN Err(Failure("Bad Request", 400))
    ELSE IF self.resource = "" THEN Err(Failure("Bad Request", 400))
    ELSE IF self.body.content = "" THEN Err(Failure("Bad Request", 400))
    ELSE IF self.body.encoding = "" THEN Err(Failure("Bad Request", 400))
    ELSE IF self.method = "" THEN Err(Failure("Bad Request", 400))
    ELSE IF ~known_encoding(self) THEN Err(Failure("Bad Request", 400))
    ELSE IF ~known_method(self) THEN Err(Failure("Bad Request", 400))
    ELSE IF bad_headers(self) /\ override_missing(self)
         THEN Err(Failure("Bad Request hea", 400))
    ELSE Ok("unit")

(***************************************************************************)
(* Envelope types: Body, JsontpRequest, Status, JsontpResponse.            *)
(***************************************************************************)
Body(content, encoding, other) ==
    [content |-> content, encoding |-> encoding, other |-> other]

JsontpRequest(jsontp, type_of_request, method, resource, headers, body) ==
    [jsontp |-> jsontp, type_of_request |-> type_of_request, method |-> method,
     resource |-> resource, headers |-> headers, body |-> body]

Status(code, formal_message, human_message) ==
    [code |-> code, formal_message |-> formal_message, human_message |-> human_message]

JsontpResponse(jsontp, type_of_response, status, resource, headers, body) ==
    [jsontp |-> jsontp, type_of_response |-> type_of_response, status |-> status,
     resource |-> resource, headers |-> headers, body |-> body]

(***************************************************************************)
(* The storage: the file system std::fs::read_to_string reads.  A path     *)
(* that is not in the domain names no file.                                *)
(***************************************************************************)
TextFile(content) == [kind |-> "text", content |-> content]
\* A file the process may not open.
DeniedFile == [kind |-> "denied", content |-> "top secret"]
\* A file whose bytes are not valid UTF-8.
BinaryFile == [kind |-> "binary", content |-> "\\xFF\\xFE"]

InitialStorage ==
    [p \in {"a.txt", "empty.txt", "secret.txt", "data.bin"} |->
        CASE p = "a.txt" -> TextFile("hello")
          [] p = "empty.txt" -> TextFile("")
          [] p = "secret.txt" -> DeniedFile
          [] p = "data.bin" -> BinaryFile]

\* The storage is the file system of the host, which other processes use
\* too: the storages one outside step makes of fs, by writing a text file
\* or removing one.
OutsidePaths == {"a.txt", "missing.txt"}
OutsideContents == {"hello", "bye"}
OutsideWrites(fs) ==
    {[p \in DOMAIN fs \cup {path} |-> IF p = path THEN TextFile(content) ELSE fs[p]] :
        path \in OutsidePaths, content \in OutsideContents}
    \cup {[p \in DOMAIN fs \ {path} |-> fs[p]] : path \in OutsidePaths \cap DOMAIN fs}

\* std::fs::read_to_string(path) against the storage fs.
read_to_string(fs, path) ==
    IF path \notin DOMAIN fs THEN Err("NotFound")
    ELSE IF fs[path].kind = "denied" THEN Err("PermissionDenied")
    ELSE IF fs[path].kind = "binary" THEN Err("InvalidData")
    ELSE Ok(fs[path].content)

(***************************************************************************)
(* The three arms of `let response = match request { .. }` in main.        *)
(***************************************************************************)
\* Variant of resolved_response: the request's headers are sent back with the
\* two response headers added.
resolved_response_keeps_headers(request, file) ==
    JsontpResponse(
        V_1_0,
        "response",
        IF file.ok THEN Status(200, "OK", "Request was successful")
                   ELSE Status(404, "Not Found", "Resource not found"),
        request.resource,
        Insert(Insert(request.headers, H_date, JString("")), H_language, JString("en-GB")),
        Body(IF file.ok THEN file.val ELSE "", "identity", EmptyMap))

\* Variant of resolved_response: a permission error gets its own status.
resolved_response_forbidden(request, file) ==
    JsontpResponse(
        V_1_0,
        "response",
        IF file.ok THEN Status(200, "OK", "Request was successful")
        ELSE IF file.err = "PermissionDenied" THEN Status(403, "Forbidden", "Access denied")
        ELSE Status(404, "Not Found", "Resource not found"),
        request.resource,
        Insert(Insert(EmptyMap, H_date, JString("")), H_language, JString("en-GB")),
        Body(IF file.ok THEN file.val ELSE "", "identity", EmptyMap))

\* Ok(_) arm of request.validate(): lines 131-164, given the result `file`
\* of the storage read.
resolved_response(request, file) ==
    JsontpResponse(
        V_1_0,
        "response",
        IF file.ok THEN Status(200, "OK", "Request was successful")
                   ELSE Status(404, "Not Found", "Resource not found"),
        request.resource,
        Insert(Insert(EmptyMap, H_date, JString("")), H_language, JString("en-GB")),
        Body(IF file.ok THEN file.val ELSE "", "identity", EmptyMap))

\* Variant of validation_failure_response: the body's extension fields are
\* not sent back.
validation_failure_response_drops_other(request, failure) ==
    JsontpResponse(
        V_1_0,
        "response",
        Status(failure.code, failure.message, failure.message),
        request.resource,
        request.headers,
        Body(request.body.content, request.body.encoding, EmptyMap))

\* Variant of validation_failure_response: the request's version is sent
\* back.
validation_failure_response_keeps_version(request, failure) ==
    JsontpResponse(
        request.jsontp,
        "response",
        Status(failure.code, failure.message, failure.message),
        request.resource,
        request.headers,
        request.body)

\* Err((message, code)) arm: lines 165-176.
validation_failure_response(request, failure) ==
    JsontpResponse(
        V_1_0,
        "response",
        Status(failure.code, failure.message, failure.message),
        request.resource,
        request.headers,
        request.body)

\* Variant of decode_failure_response: the body's encoding is "identity", as
\* in the other responses the server builds itself.
decode_failure_response_identity ==
    JsontpResponse(
        V_1_0,
        "response",
        Status(400, "Bad Request", "Request was not a valid JSONTP request"),
        "",
        EmptyMap,
        Body("", "identity", EmptyMap))

\* None arm: lines 178-193.
decode_failure_response ==
    JsontpResponse(
        V_1_0,
        "response",
        Status(400, "Bad Request", "Request was not a valid JSONTP request"),
        "",
        EmptyMap,
        Body("", "", EmptyMap))

(***************************************************************************)
(* Messages on the wire.  A message is its JSON text, abstracted to:       *)
(*   syntax   "empty" (no bytes), "invalid" (not JSON), "scalar" (JSON,    *)
(*            but not an object) or "object";                              *)
(*   len      the number of bytes of the text;                             *)
(*   absent   the fields of the envelope shape the object does not have;   *)
(*   mistyped the fields whose JSON value has the wrong type;              *)
(*   unknown  whether the object has a top-level key the shape lacks;      *)
(*   raw      the values of the fields, as sent.                           *)
(***************************************************************************)
EnvelopeFields ==
    {"jsontp", "type", "method", "resource", "headers", "body",
     "body.content", "body.encoding"}

Message(syntax, len, absent, mistyped, unknown, raw) ==
    [syntax |-> syntax, len |-> len, absent |-> absent, mistyped |-> mistyped,
     unknown |-> unknown, raw |-> raw]

\* from_utf8_lossy over the keys and the string values of a map of the text.
LossyMap(m) ==
    [k \in {from_utf8_lossy_chars(x) : x \in DOMAIN m} |->
        LET x == CHOOSE y \in DOMAIN m : from_utf8_lossy_chars(y) = k
        IN  IF m[x].t = "string" THEN JString(from_utf8_lossy(m[x].v)) ELSE m[x]]

\* String::from_utf8_lossy(&buffer[..bytes_read]) followed by
\* serde_json::from_str::<JsontpRequest>(&client_data).ok(), on the first
\* bytes_read bytes of the message msg.  A proper prefix of a JSON text is
\* not a JSON text; the derived Deserialize requires every field of the
\* shape with its type, ignores unknown top-level keys and collects the
\* unknown keys of `body` in `other`.
Decode(msg, bytes_read) ==
    IF /\ bytes_read = msg.len
       /\ msg.syntax = "object"
       /\ msg.absent = {}
       /\ msg.mistyped = {}
    THEN Some(JsontpRequest(
                from_utf8_lossy_chars(msg.raw.jsontp),
                from_utf8_lossy(msg.raw.type_of_request),
                from_utf8_lossy(msg.raw.method),
                from_utf8_lossy(msg.raw.resource),
                LossyMap(msg.raw.headers),
                Body(from_utf8_lossy(msg.raw.body.content),
                     from_utf8_lossy(msg.raw.body.encoding),
                     LossyMap(msg.raw.body.other))))
    ELSE None

\* The values stream.read(&mut buffer) can return for a message of len
\* bytes: everything that fits the buffer, or less when the bytes arrive in
\* several segments (one byte is the sample of a short read).
ReadSizes(len) == {Min(len, BufSize)} \cup {n \in {1} : n < Min(len, BufSize)}

(***************************************************************************)
(* Sampled inputs.                                                         *)
(***************************************************************************)
H_Accept == <<"A","c","c","e","p","t">>
H_x_id == <<"x","-","i","d">>
H_Ignore_Invalid_Headers ==
    <<"I","g","n","o","r","e","-","I","n","v","a","l","i","d","-","H","e","a","d","e","r","s">>
K_lang == <<"l","a","n","g">>

\* The well-formed request the samples deviate from.
BaseRequest ==
    JsontpRequest(V_1_0, "request", "GET", "a.txt", EmptyMap,
                  Body("x", "identity", EmptyMap))

JsontpAlts ==
    {<<"1", ".", "0", ".", "1">>, <<"1", ".">>, <<"2", ".", "0">>,
     <<"1", ".", "U+00E9">>, <<>>}
TypeAlts == {"response", "Request", ""}
MethodAlts == {"POST", "PUT", "DELETE", "OPTIONS", "", "get", "PATCH"}
ResourceAlts == {"", "empty.txt", "secret.txt", "data.bin", "missing.txt"}
ContentAlts == {"", "\\xFF"}
EncodingAlts == {"gzip", "deflate", "br", "", "utf-8", "GZIP"}
OtherAlts == {Insert(EmptyMap, K_lang, JString("fr"))}

HeaderKeys == {H_Accept, H_x_id, H_ignore_invalid_headers, H_Ignore_Invalid_Headers}
HeaderValues == {JBool(TRUE), JBool(FALSE), JString("true"), JNumber("1")}

\* The header maps of at most n entries.
HeaderMaps(n) ==
    UNION {[K -> HeaderValues] : K \in {K \in SUBSET HeaderKeys : Cardinality(K) <= n}}

RequestFields == {"jsontp", "type", "method", "resource", "content", "encoding", "other"}

\* The requests that deviate from BaseRequest in the fields D and carry the
\* headers hs.
RequestsWith(D, hs) ==
    [jsontp : IF "jsontp" \in D THEN JsontpAlts ELSE {BaseRequest.jsontp},
     type_of_request : IF "type" \in D THEN TypeAlts ELSE {BaseRequest.type_of_request},
     method : IF "method" \in D THEN MethodAlts ELSE {BaseRequest.method},
     resource : IF "resource" \in D THEN ResourceAlts ELSE {BaseRequest.resource},
     headers : {hs},
     body : [content : IF "content" \in D THEN ContentAlts ELSE {BaseRequest.body.content},
             encoding : IF "encoding" \in D THEN EncodingAlts ELSE {BaseRequest.body.encoding},
             other : IF "other" \in D THEN OtherAlts ELSE {BaseRequest.body.other}]]

\* The sampled requests, as the client writes them.
Requests ==
    UNION {RequestsWith(p[1], p[2]) :
             p \in {q \in (SUBSET RequestFields) \X HeaderMaps(MaxDeviations) :
                      Cardinality(q[1]) + Cardinality(DOMAIN q[2]) <= MaxDeviations}}

\* A request as one JSON object of 150 bytes.
ObjectMessage(r) == Message("object", 150, {}, {}, FALSE, r)

\* Messages at the edges of decoding: no bytes, bytes that are not JSON, JSON
\* that is not an object, an object without a field of the shape or with a
\* field of the wrong type, an object with an unknown top-level key, and
\* objects that fill the buffer exactly or exceed it by one byte.
EdgeMessages ==
    {Message("empty", 0, {}, {}, FALSE, BaseRequest),
     Message("invalid", 150, {}, {}, FALSE, BaseRequest),
     Message("scalar", 4, {}, {}, FALSE, BaseRequest),
     Message("object", 150, {}, {}, TRUE, BaseRequest),
     Message("object", BufSize, {}, {}, FALSE, BaseRequest),
     Message("object", BufSize + 1, {}, {}, FALSE, BaseRequest)}
    \cup {Message("object", 150, {f}, {}, FALSE, BaseRequest) : f \in EnvelopeFields}
    \cup {Message("object", 150, {}, {f}, FALSE, BaseRequest) : f \in EnvelopeFields}

\* What the client of the single-connection specification may send.
Messages == {ObjectMessage(r) : r \in Requests} \cup EdgeMessages

\* What the clients of the concurrent specification may send: a hit (with an
\* unlisted header and the override), a miss, a request of another version,
\* and bytes that are not JSON.
ServerMessages ==
    {ObjectMessage([BaseRequest EXCEPT
        !.method = "PUT",
        !.headers = Insert(Insert(EmptyMap, H_x_id, JNumber("1")),
                           H_ignore_invalid_headers, JBool(TRUE))]),
     ObjectMessage([BaseRequest EXCEPT !.method = "DELETE", !.resource = "missing.txt"]),
     ObjectMessage([BaseRequest EXCEPT !.jsontp = <<"2", ".", "0">>]),
     Message("invalid", 150, {}, {}, FALSE, BaseRequest)}

(***************************************************************************)
(* The server.                                                             *)
(***************************************************************************)
VARIABLES
    running,     \* the process is alive: main has not panicked
    storage,     \* the file system
    inbound,     \* per connection: the message its client sends
    pc,          \* per connection: the state of its handler
    bytes_read,  \* per connection: what stream.read returned
    request,     \* per connection: Option<JsontpRequest>
    file,        \* per connection: the result of read_to_string, once read
    response,    \* per connection: the JsontpResponse, once built
    sent,        \* per connection: what stream.write delivered
    failed,      \* per connection: the call whose unwrap panicked, or "none"
    produced,    \* per connection: number of response envelopes built
    reads,       \* per connection: number of storage reads
    calls        \* per connection: the calls made on its stream, in order

vars ==
    <<running, storage, inbound, pc, bytes_read, request, file, response, sent,
      failed, produced, reads, calls>>

Conns == DOMAIN pc

InitWith(conns, messages) ==
    /\ running = TRUE
    /\ storage = InitialStorage
    /\ inbound \in [conns -> messages]
    /\ pc = [c \in conns |-> "Idle"]
    /\ bytes_read = [c \in conns |-> 0]
    /\ request = [c \in conns |-> None]
    /\ file = [c \in conns |-> None]
    /\ response = [c \in conns |-> None]
    /\ sent = [c \in conns |-> "nothing"]
    /\ failed = [c \in conns |-> "none"]
    /\ produced = [c \in conns |-> 0]
    /\ reads = [c \in conns |-> 0]
    /\ calls = [c \in conns |-> <<>>]

\* One client, any sampled message.
Init == InitWith({1}, Messages)

\* MaxConn clients, each with one of the server messages.
InitServer == InitWith(1..MaxConn, ServerMessages)

\* An unwrap() in the handler of c panics: the thread ends, the stream is
\* dropped.
Panic(c, call) ==
    /\ pc' = [pc EXCEPT ![c] = "Panicked"]
    /\ failed' = [failed EXCEPT ![c] = call]

\* for stream in stream.incoming() { let mut stream = stream.unwrap();
\* std::thread::spawn(..) }: the listener yields the connection of c.
Accept(c) ==
    /\ running
    /\ pc[c] = "Idle"
    /\ pc' = [pc EXCEPT ![c] = "Accepted"]
    /\ UNCHANGED <<running, storage, inbound, calls, bytes_read, request, file, response,
                   sent, failed, produced, reads>>

\* The listener yields an error: stream.unwrap() panics in main and the
\* process ends, with every handler thread.
AcceptFail ==
    /\ running
    /\ running' = FALSE
    /\ UNCHANGED <<storage, inbound, calls, pc, bytes_read, request, file, response, sent,
                   failed, produced, reads>>

\* println!("Handling connection from {}", stream.peer_addr().unwrap());
Start(c) ==
    /\ running
    /\ pc[c] = "Accepted"
    /\ \/ /\ pc' = [pc EXCEPT ![c] = "Read"]
          /\ UNCHANGED failed
       \/ Panic(c, "peer_addr:121")
    /\ UNCHANGED <<running, storage, inbound, calls, bytes_read, request, file, response,
                   sent, produced, reads>>

\* let bytes_read = stream.read(&mut buffer).unwrap();
Read(c) ==
    /\ running
    /\ pc[c] = "Read"
    /\ \/ /\ \E n \in ReadSizes(inbound[c].len) :
                bytes_read' = [bytes_read EXCEPT ![c] = n]
          /\ pc' = [pc EXCEPT ![c] = "Decode"]
          /\ UNCHANGED failed
       \/ /\ Panic(c, "read:123")
          /\ UNCHANGED bytes_read
    /\ calls' = [calls EXCEPT ![c] = Append(@, "read")]
    /\ UNCHANGED <<running, storage, inbound, request, file, response, sent,
                   produced, reads>>

\* let request: Option<JsontpRequest> = serde_json::from_str(&client_data).ok();
\* and, for None, the None arm of the match.
DecodeStep(c) ==
    /\ running
    /\ pc[c] = "Decode"
    /\ request' = [request EXCEPT ![c] = Decode(inbound[c], bytes_read[c])]
    /\ IF request'[c].some
       THEN /\ pc' = [pc EXCEPT ![c] = "Validate"]
            /\ UNCHANGED <<response, produced>>
       ELSE /\ response' = [response EXCEPT ![c] = Some(decode_failure_response)]
            /\ produced' = [produced EXCEPT ![c] = @ + 1]
            /\ pc' = [pc EXCEPT ![c] = "Respond"]
    /\ UNCHANGED <<running, storage, inbound, calls, bytes_read, file, sent, failed, reads>>

\* Variant of ValidateStep: the Err arm builds its response and the handler
\* goes on to the storage read all the same.
ValidateStep_falls_through(c) ==
    /\ running
    /\ pc[c] = "Validate"
    /\ LET verdict == validate(request[c].val)
       IN  IF verdict.ok
           THEN UNCHANGED <<response, produced>>
           ELSE /\ response' =
                     [response EXCEPT
                        ![c] = Some(validation_failure_response(request[c].val, verdict.err))]
                /\ produced' = [produced EXCEPT ![c] = @ + 1]
    /\ pc' = [pc EXCEPT ![c] = "Resolve"]
    /\ UNCHANGED <<running, storage, inbound, calls, bytes_read, request, file, sent,
                   failed, reads>>

\* Variant of ValidateStep: the storage read is made before the match on
\* request.validate(), so it is made for a rejected request too.
ValidateStep_reads_first(c) ==
    /\ running
    /\ pc[c] = "Validate"
    /\ file' = [file EXCEPT ![c] = Some(read_to_string(storage, request[c].val.resource))]
    /\ reads' = [reads EXCEPT ![c] = @ + 1]
    /\ LET verdict == validate(request[c].val)
       IN  IF verdict.ok
           THEN /\ response' = [response EXCEPT
                                  ![c] = Some(resolved_response(request[c].val, file'[c].val))]
                /\ produced' = [produced EXCEPT ![c] = @ + 1]
                /\ pc' = [pc EXCEPT ![c] = "Respond"]
           ELSE /\ response' =
                     [response EXCEPT
                        ![c] = Some(validation_failure_response(request[c].val, verdict.err))]
                /\ produced' = [produced EXCEPT ![c] = @ + 1]
                /\ pc' = [pc EXCEPT ![c] = "Respond"]
    /\ UNCHANGED <<running, storage, inbound, calls, bytes_read, request, sent, failed>>

\* match request.validate() and, for Err, the Err arm of the match.
ValidateStep(c) ==
    /\ running
    /\ pc[c] = "Validate"
    /\ LET verdict == validate(request[c].val)
       IN  IF verdict.ok
           THEN /\ pc' = [pc EXCEPT ![c] = "Resolve"]
                /\ UNCHANGED <<response, produced>>
           ELSE /\ response' =
                     [response EXCEPT
                        ![c] = Some(validation_failure_response(request[c].val, verdict.err))]
                /\ produced' = [produced EXCEPT ![c] = @ + 1]
                /\ pc' = [pc EXCEPT ![c] = "Respond"]
    /\ UNCHANGED <<running, storage, inbound, calls, bytes_read, request, file, sent,
                   failed, reads>>

\* Variant of Resolve: the request is taken from a slot all handlers share,
\* so the handler of c may resolve the request another handler decoded.
Resolve_shared_request(c) ==
    /\ running
    /\ pc[c] = "Resolve"
    /\ \E d \in Conns :
          /\ request[d].some
          /\ file' = [file EXCEPT
                        ![c] = Some(read_to_string(storage, request[d].val.resource))]
          /\ response' = [response EXCEPT
                            ![c] = Some(resolved_response(request[d].val, file'[c].val))]
    /\ reads' = [reads EXCEPT ![c] = @ + 1]
    /\ produced' = [produced EXCEPT ![c] = @ + 1]
    /\ pc' = [pc EXCEPT ![c] = "Respond"]
    /\ UNCHANGED <<running, storage, inbound, calls, bytes_read, request, sent, failed>>

\* Variant of Resolve: the date header is filled in, with the number of
\* storage reads made so far standing for the clock.
Resolve_dated(c) ==
    /\ running
    /\ pc[c] = "Resolve"
    /\ file' = [file EXCEPT ![c] = Some(read_to_string(storage, request[c].val.resource))]
    /\ reads' = [reads EXCEPT ![c] = @ + 1]
    /\ response' =
          [response EXCEPT
             ![c] = Some([resolved_response(request[c].val, file'[c].val) EXCEPT
                            !.headers[H_date] =
                                JNumber(ToString(Cardinality({d \in Conns : reads[d] > 0})))])]
    /\ produced' = [produced EXCEPT ![c] = @ + 1]
    /\ pc' = [pc EXCEPT ![c] = "Respond"]
    /\ UNCHANGED <<running, storage, inbound, calls, bytes_read, request, sent, failed>>

\* Variant of Resolve: a PUT stores the body's content under the resource
\* before the read.
Resolve_put_writes(c) ==
    /\ running
    /\ pc[c] = "Resolve"
    /\ storage' = IF request[c].val.method = "PUT"
                  THEN [p \in DOMAIN storage \cup {request[c].val.resource} |->
                          IF p = request[c].val.resource
                          THEN TextFile(request[c].val.body.content)
                          ELSE storage[p]]
                  ELSE storage
    /\ file' = [file EXCEPT ![c] = Some(read_to_string(storage', request[c].val.resource))]
    /\ reads' = [reads EXCEPT ![c] = @ + 1]
    /\ response' = [response EXCEPT
                      ![c] = Some(resolved_response(request[c].val, file'[c].val))]
    /\ produced' = [produced EXCEPT ![c] = @ + 1]
    /\ pc' = [pc EXCEPT ![c] = "Respond"]
    /\ UNCHANGED <<running, inbound, calls, bytes_read, request, sent, failed>>

\* Variant of Resolve: the file is read once for the status and once more
\* for the content, and the storage may have changed in between.
Resolve_reads_twice(c) ==
    /\ running
    /\ pc[c] = "Resolve"
    /\ file' = [file EXCEPT ![c] = Some(read_to_string(storage, request[c].val.resource))]
    /\ reads' = [reads EXCEPT ![c] = @ + 1]
    /\ \E later \in {storage} \cup OutsideWrites(storage) :
          LET second == read_to_string(later, request[c].val.resource)
          IN  response' =
                 [response EXCEPT
                    ![c] = Some([resolved_response(request[c].val, file'[c].val) EXCEPT
                                   !.body.content = IF second.ok THEN second.val ELSE ""])]
    /\ produced' = [produced EXCEPT ![c] = @ + 1]
    /\ pc' = [pc EXCEPT ![c] = "Respond"]
    /\ UNCHANGED <<running, storage, inbound, calls, bytes_read, request, sent, failed>>

\* let file = std::fs::read_to_string(&request.resource); and the Ok arm.
Resolve(c) ==
    /\ running
    /\ pc[c] = "Resolve"
    /\ file' = [file EXCEPT ![c] = Some(read_to_string(storage, request[c].val.resource))]
    /\ reads' = [reads EXCEPT ![c] = @ + 1]
    /\ response' = [response EXCEPT
                      ![c] = Some(resolved_response(request[c].val, file'[c].val))]
    /\ produced' = [produced EXCEPT ![c] = @ + 1]
    /\ pc' = [pc EXCEPT ![c] = "Respond"]
    /\ UNCHANGED <<running, storage, inbound, calls, bytes_read, request, sent, failed>>

\* let str_response = serde_json::to_string(&response).unwrap();
\* stream.write(str_response.as_bytes()).unwrap();
\* println!("handled connection from {}", stream.peer_addr().unwrap());
\* write returns Ok(n) with n the whole text or a part of it, or Err; the
\* thread then ends and the stream is dropped.
Respond(c) ==
    /\ running
    /\ pc[c] = "Respond"
    /\ \/ /\ sent' = [sent EXCEPT ![c] = "all"]
          /\ \/ /\ pc' = [pc EXCEPT ![c] = "Closed"]
                /\ UNCHANGED failed
             \/ Panic(c, "peer_addr:200")
       \/ /\ sent' = [sent EXCEPT ![c] = "part"]
          /\ \/ /\ pc' = [pc EXCEPT ![c] = "Closed"]
                /\ UNCHANGED failed
             \/ Panic(c, "peer_addr:200")
       \/ /\ Panic(c, "write:198")
          /\ UNCHANGED sent
    /\ calls' = [calls EXCEPT ![c] = Append(@, "write")]
    /\ UNCHANGED <<running, storage, inbound, bytes_read, request, file, response,
                   produced, reads>>

\* Another process changes the file system while the server runs.
OutsideWrite ==
    /\ running
    /\ storage' \in OutsideWrites(storage) \ {storage}
    /\ UNCHANGED <<running, inbound, calls, pc, bytes_read, request, file, response, sent,
                   failed, produced, reads>>

Next ==
    \/ AcceptFail
    \/ \E c \in Conns : Accept(c)
    \/ \E c \in Conns : Start(c)
    \/ \E c \in Conns : Read(c)
    \/ \E c \in Conns : DecodeStep(c)
    \/ \E c \in Conns : ValidateStep(c)
    \/ \E c \in Conns : Resolve(c)
    \/ \E c \in Conns : Respond(c)

Spec == Init /\ [][Next]_vars

SpecServer == InitServer /\ [][Next]_vars

\* The server beside a process that changes the storage: one client with one
\* of the server messages.
InitOutside == InitWith({1}, ServerMessages)

NextOutside ==
    \/ OutsideWrite
    \/ AcceptFail
    \/ \E c \in Conns : Accept(c)
    \/ \E c \in Conns : Start(c)
    \/ \E c \in Conns : Read(c)
    \/ \E c \in Conns : DecodeStep(c)
    \/ \E c \in Conns : ValidateStep(c)
    \/ \E c \in Conns : Resolve(c)
    \/ \E c \in Conns : Respond(c)

SpecOutside == InitOutside /\ [][NextOutside]_vars

(***************************************************************************)
(* Properties.                                                             *)
(***************************************************************************)
\* The handler of c has built its response from the bytes it read.
Answered(c) == response[c].some

\* The handler of c has ended, normally or by a panic.
Ended(c) == pc[c] \in {"Closed", "Panicked"}

\* The jsontp value s starts with the three characters "1.0".
StartsWith10(s) == Len(s) >= 3 /\ s[1] = "1" /\ s[2] = "." /\ s[3] = "0"

\* C1, as stated: every accepted connection whose handler has ended has
\* produced exactly one response envelope.
C1_OneResponsePerAccepted ==
    \A c \in Conns : Ended(c) => produced[c] = 1

\* C1, amended: a connection never produces two response envelopes; it has
\* produced exactly one as soon as its handler has dealt with the bytes its
\* read returned (undecodable, rejected by validate, or validated and
\* resolved), and none before that or when peer_addr or read failed; no call
\* between the read and the write fails.
C1_OneResponseOnceRead ==
    \A c \in Conns :
        /\ produced[c] <= 1
        /\ produced[c] = 1 <=>
              \/ pc[c] \in {"Respond", "Closed"}
              \/ failed[c] \in {"write:198", "peer_addr:200"}
        /\ produced[c] = 1 <=> Answered(c)
        /\ failed[c] \in {"none", "peer_addr:121", "read:123", "write:198", "peer_addr:200"}
        /\ pc[c] \in {"Decode", "Validate", "Resolve", "Respond", "Closed"} => failed[c] = "none"

\* C1 witness: a connection that received undecodable bytes has closed with
\* its one response.
C1_Witness ==
    \E c \in Conns : pc[c] = "Closed" /\ ~request[c].some /\ produced[c] = 1

\* C2: a decoded request is answered 505 "HTTP Version Not Supported"
\* exactly when its jsontp does not start with "1.0", whatever its other
\* fields; a jsontp that merely starts with "1.0" is not.
C2_VersionRule ==
    \A c \in Conns :
        request[c].some /\ Answered(c) =>
            IF StartsWith10(request[c].val.jsontp)
            THEN response[c].val.status.code # 505
            ELSE /\ response[c].val.status.code = 505
                 /\ response[c].val.status.formal_message = "HTTP Version Not Supported"

\* C2 witness: a jsontp shorter than three characters was answered 505.
C2_Witness ==
    \E c \in Conns :
        /\ request[c].some /\ Answered(c)
        /\ Len(request[c].val.jsontp) < 3
        /\ response[c].val.status.code = 505

\* A field that rules 2 to 6 of validate look at is wrong: the type is not
\* "request", or resource, body.content, body.encoding or method is empty.
WrongTypeOrEmptyField(r) ==
    \/ r.type_of_request # "request"
    \/ r.resource = ""
    \/ r.body.content = ""
    \/ r.body.encoding = ""
    \/ r.method = ""

\* C3, as stated: a decoded request with a wrong type or an empty resource,
\* body.content, body.encoding or method is answered 400.
C3_TypeOrEmpty400 ==
    \A c \in Conns :
        request[c].some /\ Answered(c) /\ WrongTypeOrEmptyField(request[c].val)
            => response[c].val.status.code = 400

\* C3, amended: such a request is answered 400 when its jsontp starts with
\* "1.0" (otherwise the version rule answers first, with 505).
C3_TypeOrEmpty400_Version10 ==
    \A c \in Conns :
        /\ request[c].some /\ Answered(c)
        /\ StartsWith10(request[c].val.jsontp)
        /\ WrongTypeOrEmptyField(request[c].val)
        => response[c].val.status.code = 400

\* C3 witness: a request of version 1.0 whose type is "Request" was answered
\* 400.
C3_Witness ==
    \E c \in Conns :
        /\ request[c].some /\ Answered(c)
        /\ StartsWith10(request[c].val.jsontp)
        /\ request[c].val.type_of_request = "Request"
        /\ response[c].val.status.code = 400

\* The encoding or the method is outside the sets rules 7 and 8 accept.
UnknownEncodingOrMethod(r) ==
    \/ r.body.encoding \notin {"gzip", "deflate", "br", "identity"}
    \/ r.method \notin {"GET", "POST", "PUT", "DELETE", "OPTIONS"}

\* C4, as stated: a decoded request whose body.encoding is outside {gzip,
\* deflate, br, identity} or whose method is outside {GET, POST, PUT, DELETE,
\* OPTIONS} is answered 400.
C4_UnknownEncodingOrMethod400 ==
    \A c \in Conns :
        request[c].some /\ Answered(c) /\ UnknownEncodingOrMethod(request[c].val)
            => response[c].val.status.code = 400

\* C4, amended: such a request is answered 400 when its jsontp starts with
\* "1.0" (otherwise the version rule answers first, with 505).
C4_UnknownEncodingOrMethod400_Version10 ==
    \A c \in Conns :
        /\ request[c].some /\ Answered(c)
        /\ StartsWith10(request[c].val.jsontp)
        /\ UnknownEncodingOrMethod(request[c].val)
        => response[c].val.status.code = 400

\* C4 witness: a request of version 1.0 with the encoding "GZIP" was
\* answered 400.
C4_Witness ==
    \E c \in Conns :
        /\ request[c].some /\ Answered(c)
        /\ StartsWith10(request[c].val.jsontp)
        /\ request[c].val.body.encoding = "GZIP"
        /\ response[c].val.status.code = 400

\* Rules 1 to 8 of validate, from their statement.
PassesRules1to8(r) ==
    /\ StartsWith10(r.jsontp)
    /\ ~WrongTypeOrEmptyField(r)
    /\ ~UnknownEncodingOrMethod(r)

\* Two characters that are equal or differ only in case.
SameLetter(x, y) ==
    \/ x = y
    \/ x \in DOMAIN UpperToLower /\ UpperToLower[x] = y
    \/ y \in DOMAIN UpperToLower /\ UpperToLower[y] = x

EqualIgnoringCase(a, b) ==
    Len(a) = Len(b) /\ \A i \in 1..Len(a) : SameLetter(a[i], b[i])

\* The nine names of the header allow-list.
NineNames ==
    {H_content_type, H_accept, H_accept_encoding, H_accept_language, H_authorization,
     H_cookies, H_if_modified_since, H_if_unmodified_since, H_expect}

\* Some header key of r is outside the allow-list.
HasUnlistedHeader(r) ==
    \E key \in DOMAIN r.headers : \A name \in NineNames : ~EqualIgnoringCase(key, name)

\* The headers of r contain the key ignore-invalid-headers with the boolean
\* value true.
HasOverride(r) ==
    /\ H_ignore_invalid_headers \in DOMAIN r.headers
    /\ r.headers[H_ignore_invalid_headers] = JBool(TRUE)

\* validate rejected the request of c: its response was built without a
\* storage read.
Rejected(c) == request[c].some /\ Answered(c) /\ ~file[c].some

\* C5: a request that passes rules 1 to 8 is rejected, with 400, exactly
\* when some header key is outside the allow-list and the headers do not
\* contain ignore-invalid-headers with the boolean true.
C5_HeaderRule ==
    \A c \in Conns :
        request[c].some /\ Answered(c) /\ PassesRules1to8(request[c].val) =>
            /\ Rejected(c) <=>
                  HasUnlistedHeader(request[c].val) /\ ~HasOverride(request[c].val)
            /\ Rejected(c) => response[c].val.status.code = 400

\* C5 witness: a request with the unlisted header x-id and
\* ignore-invalid-headers: true passed validation and was resolved.
C5_Witness ==
    \E c \in Conns :
        /\ request[c].some /\ file[c].some
        /\ H_x_id \in DOMAIN request[c].val.headers
        /\ HasOverride(request[c].val)

\* The handler of c has gone through its decode step.
Decoded(c) ==
    \/ pc[c] \in {"Validate", "Resolve", "Respond", "Closed"}
    \/ failed[c] \in {"write:198", "peer_addr:200"}

\* C6: when the bytes read do not decode as a request (among them an empty
\* read and a message cut by the buffer), the handler does not fail: it
\* builds the response 400 "Bad Request" with empty resource, headers and
\* body, and never reads the storage.
C6_DecodeFailure ==
    \A c \in Conns :
        /\ Decoded(c) /\ (bytes_read[c] = 0 \/ inbound[c].len > BufSize
                            \/ inbound[c].syntax # "object")
              => ~request[c].some
        /\ Decoded(c) /\ ~request[c].some =>
              /\ Answered(c)
              /\ response[c].val.status.code = 400
              /\ response[c].val.status.formal_message = "Bad Request"
              /\ response[c].val.resource = ""
              /\ response[c].val.headers = EmptyMap
              /\ response[c].val.body = Body("", "", EmptyMap)
              /\ reads[c] = 0
              /\ ~file[c].some

\* C6 witness: a message one byte longer than the buffer was answered 400.
C6_Witness ==
    \E c \in Conns :
        /\ pc[c] = "Closed"
        /\ inbound[c].len > BufSize
        /\ bytes_read[c] = BufSize
        /\ response[c].val.status.code = 400

\* C7: when validate rejects a decoded request, the response carries the
\* code and message validate returned, its human message equals its formal
\* message, and its resource, headers and body are those of the request.
C7_ValidationFailureEcho ==
    \A c \in Conns :
        Rejected(c) =>
            /\ ~validate(request[c].val).ok
            /\ <<response[c].val.status.formal_message, response[c].val.status.code>> \in
                  {<<"HTTP Version Not Supported", 505>>, <<"Bad Request", 400>>,
                   <<"Bad Request hea", 400>>}
            /\ response[c].val.status.code = validate(request[c].val).err.code
            /\ response[c].val.status.formal_message = validate(request[c].val).err.message
            /\ response[c].val.status.human_message = response[c].val.status.formal_message
            /\ response[c].val.resource = request[c].val.resource
            /\ response[c].val.headers = request[c].val.headers
            /\ response[c].val.body = request[c].val.body

\* C7 witness: a rejected request with an extension field in its body got
\* the field back.
C7_Witness ==
    \E c \in Conns :
        /\ Rejected(c)
        /\ K_lang \in DOMAIN request[c].val.body.other
        /\ K_lang \in DOMAIN response[c].val.body.other

\* The two headers of a response the server builds for a validated request.
FreshHeaders ==
    [k \in {H_date, H_language} |-> IF k = H_date THEN JString("") ELSE JString("en-GB")]

\* The resource names a file of the storage that can be read as text.
Readable(path) == path \in DOMAIN storage /\ storage[path].kind = "text"

\* C8: a request that passes validation and names a readable entry is
\* answered 200 with its own resource, the entry's content, the encoding
\* "identity" and the headers date = "" and language = "en-GB"; nothing of
\* the request's headers and body is sent back.
C8_ResolverHit ==
    \A c \in Conns :
        /\ request[c].some /\ Answered(c)
        /\ validate(request[c].val).ok
        /\ Readable(request[c].val.resource)
        => /\ response[c].val.status.code = 200
           /\ response[c].val.resource = request[c].val.resource
           /\ response[c].val.body.content = storage[request[c].val.resource].content
           /\ response[c].val.body.encoding = "identity"
           /\ response[c].val.body.other = EmptyMap
           /\ response[c].val.headers = FreshHeaders

\* C8 witness: a validated request with headers and an extension field of
\* its own was answered 200 with the content of a.txt.
C8_Witness ==
    \E c \in Conns :
        /\ Answered(c) /\ file[c].some
        /\ request[c].val.resource = "a.txt"
        /\ request[c].val.headers # EmptyMap
        /\ response[c].val.status.code = 200
        /\ response[c].val.body.content = "hello"

\* C9: a request that passes validation and whose storage read fails, for
\* whatever reason, is answered 404 "Not Found" with empty content, the
\* encoding "identity" and its own resource: the same response for every
\* cause, and the handler goes on to send it.
C9_ResolverMiss ==
    \A c \in Conns :
        /\ request[c].some /\ Answered(c)
        /\ validate(request[c].val).ok
        /\ ~Readable(request[c].val.resource)
        => /\ response[c].val =
                JsontpResponse(V_1_0, "response",
                               Status(404, "Not Found", "Resource not found"),
                               request[c].val.resource, FreshHeaders,
                               Body("", "identity", EmptyMap))
           /\ failed[c] \in {"none", "write:198", "peer_addr:200"}

\* C9 witness: the read of a file the process may not open was answered 404.
C9_Witness ==
    \E c \in Conns :
        /\ Answered(c) /\ file[c].some
        /\ file[c].val = Err("PermissionDenied")
        /\ response[c].val.status.code = 404

\* C10: every response has jsontp "1.0" and type "response", whatever the
\* request's jsontp and type.
C10_VersionAndType ==
    \A c \in Conns :
        Answered(c) =>
            /\ response[c].val.jsontp = V_1_0
            /\ response[c].val.type_of_response = "response"

\* C10 witness: a request of version 2.0 was answered with jsontp "1.0".
C10_Witness ==
    \E c \in Conns :
        /\ request[c].some /\ Answered(c)
        /\ request[c].val.jsontp = <<"2", ".", "0">>
        /\ response[c].val.jsontp = V_1_0
        /\ response[c].val.type_of_response = "response"

\* Some step of the server for the connection c: its accept, or a step of
\* its handler.
Serve(c) ==
    \/ Accept(c)
    \/ Start(c)
    \/ Read(c)
    \/ DecodeStep(c)
    \/ ValidateStep(c)
    \/ Resolve(c)
    \/ Respond(c)

\* A transport call has failed: the listener's accept, or the peer_addr, read
\* or write of some connection.
TransportFailure == ~running \/ \E d \in Conns : failed[d] # "none"

\* C11, as stated: after a transport failure (of accept, read or write) every
\* connection whose handler has not ended, accepted already or still to
\* arrive, is still served: its next step can be taken.
C11_TransportErrorLocal ==
    TransportFailure => \A c \in Conns : ~Ended(c) => ENABLED Serve(c)

\* The part of C11 that holds: the failure of a call on one connection's
\* stream leaves every other connection served.
C11_StreamFailureLocal ==
    running => \A c \in Conns : ~Ended(c) => ENABLED Serve(c)

\* C12: on every connection the client is delivered the whole serialized
\* response or nothing of it, also when the one write call accepts only a
\* part of the text or fails.
C12_NoPartialResponse ==
    \A c \in Conns : sent[c] \in {"nothing", "all"}

\* The response main builds from the first n bytes of the message msg against
\* the storage fs, when nothing else runs.
AloneResponse(msg, n, fs) ==
    LET req == Decode(msg, n)
    IN  IF ~req.some THEN decode_failure_response
        ELSE IF ~validate(req.val).ok
             THEN validation_failure_response(req.val, validate(req.val).err)
        ELSE resolved_response(req.val, read_to_string(fs, req.val.resource))

\* Everything the handler of c has read or written.
Local(c) ==
    <<pc[c], bytes_read[c], request[c], file[c], response[c], sent[c], failed[c],
      produced[c], reads[c], calls[c]>>

\* C13: under every interleaving of the handlers, a step changes the state
\* of at most one connection, and the response of a connection is the one it
\* would get if it were handled alone against the same storage.
C13_Independent ==
    /\ [](\A c \in Conns :
            Answered(c) =>
                response[c].val = AloneResponse(inbound[c], bytes_read[c], storage))
    /\ [][Cardinality({c \in Conns : Local(c)' # Local(c)}) <= 1]_vars

\* C13 witness: two connections, handled side by side, have closed with
\* different responses.
C13_Witness ==
    \E c, d \in Conns :
        /\ c # d
        /\ pc[c] = "Closed" /\ pc[d] = "Closed"
        /\ response[c].val.status.code = 200
        /\ response[d].val.status.code = 404

\* The orders in which the keys S can be iterated.
Orders(S) ==
    {o \in [1..Cardinality(S) -> S] : \A i, j \in 1..Cardinality(S) : o[i] = o[j] => i = j}

\* C14: two connections that received the same request, one that passes
\* validation, against an unchanged storage get structurally identical
\* responses (status, resource, headers, body), whether handled in sequence
\* or side by side; the order in which the header map is iterated does not
\* change validate's verdict.
C14_Idempotent ==
    /\ storage = InitialStorage
    /\ \A c, d \in Conns :
          /\ request[c].some /\ request[d].some
          /\ request[c] = request[d]
          /\ validate(request[c].val).ok
          /\ Answered(c) /\ Answered(d)
          => response[c] = response[d]
    /\ \A c \in Conns :
          request[c].some =>
              \A o \in Orders(DOMAIN request[c].val.headers) :
                  header_loop(o) = bad_headers(request[c].val)

\* C14 witness: two connections have been answered 200 for the same request,
\* one that carries two headers.
C14_Witness ==
    \E c, d \in Conns :
        /\ c # d
        /\ request[c].some /\ request[c] = request[d]
        /\ Cardinality(DOMAIN request[c].val.headers) = 2
        /\ Answered(c) /\ Answered(d)
        /\ response[c].val.status.code = 200
        /\ response[d].val.status.code = 200

\* The request r violates rule i of the nine validation rules, as the rules
\* are stated.
ViolatesRule(r, i) ==
    CASE i = 1 -> ~StartsWith10(r.jsontp)
      [] i = 2 -> r.type_of_request # "request"
      [] i = 3 -> r.resource = ""
      [] i = 4 -> r.body.content = ""
      [] i = 5 -> r.body.encoding = ""
      [] i = 6 -> r.method = ""
      [] i = 7 -> r.body.encoding \notin {"gzip", "deflate", "br", "identity"}
      [] i = 8 -> r.method \notin {"GET", "POST", "PUT", "DELETE", "OPTIONS"}
      [] i = 9 -> HasUnlistedHeader(r) /\ ~HasOverride(r)

\* The message and code of rule i.
RuleFailure(i) ==
    IF i = 1 THEN <<"HTTP Version Not Supported", 505>>
    ELSE IF i = 9 THEN <<"Bad Request hea", 400>>
    ELSE <<"Bad Request", 400>>

\* C15: the rules are applied in their order and the first failure decides:
\* a request is rejected exactly when it violates some rule, with the
\* message and code of the lowest-numbered rule it violates.
C15_FirstFailureDecides ==
    \A c \in Conns :
        request[c].some /\ Answered(c) =>
            LET r == request[c].val
                violated == {i \in 1..9 : ViolatesRule(r, i)}
            IN  IF violated = {}
                THEN ~Rejected(c)
                ELSE /\ Rejected(c)
                     /\ <<response[c].val.status.formal_message,
                          response[c].val.status.code>> =
                            RuleFailure(CHOOSE i \in violated : \A j \in violated : i <= j)

\* C15 witness: a request that violates the header rule and the type rule
\* was answered with the plain "Bad Request".
C15_Witness ==
    \E c \in Conns :
        /\ Rejected(c)
        /\ ViolatesRule(request[c].val, 9)
        /\ ViolatesRule(request[c].val, 2)
        /\ response[c].val.status.formal_message = "Bad Request"

\* C16: a failure at Decode or at Validate goes straight to Respond with
\* its error envelope and without a storage read; the storage is read at
\* most once per connection, and only for a request that decoded and
\* violates none of the nine rules.
C16_FailureSkipsResolve ==
    /\ [](\A c \in Conns :
            /\ reads[c] <= 1
            /\ file[c].some <=> reads[c] = 1
            /\ reads[c] = 1 =>
                  /\ request[c].some
                  /\ \A i \in 1..9 : ~ViolatesRule(request[c].val, i))
    /\ [][\A c \in Conns :
            /\ pc[c] = "Decode" /\ pc'[c] # "Decode" /\ ~request'[c].some =>
                  /\ pc'[c] = "Respond"
                  /\ response'[c] = Some(decode_failure_response)
                  /\ reads'[c] = 0
            /\ pc[c] = "Validate" /\ pc'[c] # "Validate" /\ ~validate(request[c].val).ok =>
                  /\ pc'[c] = "Respond"
                  /\ response'[c] =
                        Some(validation_failure_response(request[c].val,
                                                         validate(request[c].val).err))
                  /\ reads'[c] = 0]_vars

\* C16 witness: a rejected request was answered and its connection closed
\* without any storage read.
C16_Witness ==
    \E c \in Conns :
        /\ pc[c] = "Closed"
        /\ request[c].some
        /\ ~validate(request[c].val).ok
        /\ reads[c] = 0
        /\ response[c].val.status.code \in {400, 505}

\* The read of c has returned its byte count.
ReadReturned(c) ==
    \/ pc[c] \in {"Decode", "Validate", "Resolve", "Respond", "Closed"}
    \/ failed[c] \in {"write:198", "peer_addr:200"}

\* C17: a connection whose read has returned and whose handler can take no
\* further step has reached Closed, having made exactly one read followed
\* by exactly one write that sent its single response.
C17_ReadThenWriteThenClosed ==
    \A c \in Conns :
        ReadReturned(c) /\ ~ENABLED Serve(c) =>
            /\ pc[c] = "Closed"
            /\ calls[c] = <<"read", "write">>
            /\ produced[c] = 1
            /\ sent[c] = "all"

\* The request r with every header key put in lower case.
WithLowerCaseKeys(r) ==
    [r EXCEPT !.headers =
        [k \in {to_lowercase(key) : key \in DOMAIN r.headers} |->
            r.headers[CHOOSE key \in DOMAIN r.headers : to_lowercase(key) = k]]]

\* No two header keys of r differ only in letter case.
DistinctIgnoringCase(r) ==
    \A j, k \in DOMAIN r.headers : to_lowercase(j) = to_lowercase(k) => j = k

\* C18: validation treats header keys case-insensitively: a request gets the
\* verdict of the request that differs from it only in having its header
\* keys in lower case.
C18_HeaderKeysCaseInsensitive ==
    \A c \in Conns :
        request[c].some /\ Answered(c) /\ DistinctIgnoringCase(request[c].val) =>
            (Rejected(c) <=> ~validate(WithLowerCaseKeys(request[c].val)).ok)

\* C19: no request changes the storage: whatever the connections, their
\* interleaving, methods and bodies, the storage keeps its contents, and a
\* request that passes validation is answered from a read of its resource.
C19_StorageUnchanged ==
    /\ storage = InitialStorage
    /\ \A c \in Conns :
          request[c].some /\ Answered(c) /\ validate(request[c].val).ok =>
              /\ file[c] = Some(read_to_string(InitialStorage, request[c].val.resource))
              /\ response[c].val = resolved_response(request[c].val, file[c].val)

\* C19 witness: two PUT requests for the same entry, each with a body, were
\* both answered with the entry's content, and a DELETE was resolved too.
C19_Witness ==
    \E c, d \in Conns :
        /\ c # d
        /\ pc[c] = "Closed" /\ pc[d] = "Closed"
        /\ request[c].some /\ request[c].val.method = "PUT"
        /\ request[c].val.body.content # ""
        /\ response[c].val.status.code = 200
        /\ response[c].val.body.content = "hello"
        /\ request[d].some /\ request[d].val.method \in {"PUT", "DELETE"}
        /\ file[d].some

\* C20: the status and the body of a response to a validated request come
\* from one storage read, also while the storage changes: 200 carries the
\* content that read returned, 404 carries the empty content and stands for
\* a read that failed.
C20_StatusAndBodyFromOneRead ==
    \A c \in Conns :
        Answered(c) /\ file[c].some =>
            /\ reads[c] = 1
            /\ response[c].val.status.code \in {200, 404}
            /\ response[c].val.status.code = 200 =>
                  /\ file[c].val.ok
                  /\ response[c].val.body.content = file[c].val.val
            /\ response[c].val.status.code = 404 =>
                  /\ ~file[c].val.ok
                  /\ response[c].val.body.content = ""

\* C20 witness: the storage was changed before the read and again after
\* it: the response carries the content written by the outside party, which
\* the storage no longer holds.
C20_Witness ==
    \E c \in Conns :
        /\ Answered(c) /\ file[c].some
        /\ response[c].val.status.code = 200
        /\ response[c].val.body.content = "bye"
        /\ read_to_string(storage, request[c].val.resource) # Ok("bye")

=============================================================================
